---------------------------- MODULE Spec2Model ----------------------------
(***************************************************************************)
(* ParallaxGen: the archive priority resolver and virtual file map of      *)
(* BethesdaDirectoryIterator, and the configuration cascade merger of      *)
(* ParallaxGenDirectory.                                                   *)
(*                                                                         *)
(* Strings are sequences of one-character strings, so that prefix tests,   *)
(* trimming, splitting and case folding are computed, not assumed.         *)
(* Paths are raw strings; the key of the file map is a std::filesystem     *)
(* path, which std::map orders by path::compare: element by element, both  *)
(* '/' and '\' separating elements (the program is Windows-only), letter   *)
(* case significant.                                                       *)
(***************************************************************************)
EXTENDS Integers, Sequences, FiniteSets, TLC

VARIABLES
    \* ---- environment of BethesdaDirectoryIterator (read, never written)
    pt_ini,          \* merged INI property tree: present [Archive] field -> value
    loadorder_txt,   \* the lines of loadorder.txt
    data_dir,        \* regular files under the data directory, enumeration order
    bsa_data,        \* archive file name -> its <<folder, file>> entries
    arg_trim_extension,  \* the argument of a direct call of getPluginLoadOrder
    \* ---- BethesdaDirectoryIterator
    pc,              \* position inside populateFileMap
    out_bsa_order,   \* getBSAPriorityList: the list being built
    load_order,      \* getBSAPriorityList: plugins, extension stripped
    all_bsa_files,   \* getBSAPriorityList: archives found in the data directory
    plugin_i,        \* getBSAPriorityList: plugins processed so far
    cur_found_bsas,  \* getBSAPriorityList: matches of the last plugin processed
    bsa_files,       \* populateFileMap: the priority list returned
    bsa_i,           \* populateFileMap: archives processed so far
    fileMap,         \* path key -> origin
    warned,          \* spdlog::warn records: <<kind, name>>
    \* ---- ParallaxGenDirectory::loadPGConfig
    cfg_pc,          \* position inside loadPGConfig
    load_default,    \* the parameter of loadPGConfig
    default_json,    \* cfg/default.json: absent, malformed or a JSON value
    pg_configs,      \* override fragments in discovery order: malformed or JSON
    cfg_i,           \* fragments processed so far
    PG_config,       \* the merged configuration
    cfg_count,       \* fragments merged
    cfg_warned,      \* indices of fragments skipped with a warning
    \* ---- ParallaxGenDirectory::findComplexMaterialMaps
    cm_pc,           \* position inside findComplexMaterialMaps
    env_maps,        \* the "_m.dds" candidates findFilesBySuffix returned
    dds,             \* candidate -> what LoadFromDDSMemory makes of its bytes
    cm_i,            \* candidates examined so far
    complexMaterialMaps,  \* the complex material maps found
    cm_warned        \* candidates skipped with a warning

bdiEnv == <<pt_ini, loadorder_txt, data_dir, bsa_data, arg_trim_extension>>
bdiVars == <<pc, out_bsa_order, load_order, all_bsa_files, plugin_i,
             cur_found_bsas, bsa_files, bsa_i, fileMap, warned>>
cfgVars == <<cfg_pc, load_default, default_json, pg_configs, cfg_i, PG_config, cfg_count,
             cfg_warned>>
cmVars == <<cm_pc, env_maps, dds, cm_i, complexMaterialMaps, cm_warned>>
vars == <<bdiEnv, bdiVars, cfgVars, cmVars>>

---------------------------------------------------------------------------
(* Characters and std::string operations *)

Upper == <<"A", "B", "C", "D", "E", "F", "G", "H", "I", "J", "K", "L", "M",
           "N", "O", "P", "Q", "R", "S", "T", "U", "V", "W", "X", "Y", "Z">>
Lower == <<"a", "b", "c", "d", "e", "f", "g", "h", "i", "j", "k", "l", "m",
           "n", "o", "p", "q", "r", "s", "t", "u", "v", "w", "x", "y", "z">>

\* std::tolower on one character (boost::iequals, the case-insensitive file system)
LowerOf ==
    [c \in {Upper[i] : i \in 1..Len(Upper)} |->
        Lower[CHOOSE i \in 1..Len(Upper) : Upper[i] = c]]

ToLowerChar(c) == IF c \in DOMAIN LowerOf THEN LowerOf[c] ELSE c

ToLower(s) == [i \in 1..Len(s) |-> ToLowerChar(s[i])]

\* boost::iequals
IEquals(s, t) == ToLower(s) = ToLower(t)

\* isdigit
IsDigit(c) == c \in {"0", "1", "2", "3", "4", "5", "6", "7", "8", "9"}

\* std::isspace in the classic locale (boost::trim)
IsSpace(c) == c \in {" ", "\t", "\n", "\r"}

\* std::string::starts_with
StartsWith(s, p) == Len(p) <= Len(s) /\ SubSeq(s, 1, Len(p)) = p

\* std::string::substr(pos)
Substr(s, pos) == SubSeq(s, pos + 1, Len(s))

\* the positions of character c in s
Positions(s, c) == {i \in 1..Len(s) : s[i] = c}

SetMax(S) == CHOOSE x \in S : \A y \in S : y <= x
SetMin(S) == CHOOSE x \in S : \A y \in S : x <= y

\* boost::trim: drop leading and trailing whitespace
Trim(s) ==
    LET keep == {i \in 1..Len(s) : ~IsSpace(s[i])}
    IN  IF keep = {} THEN <<>> ELSE SubSeq(s, SetMin(keep), SetMax(keep))

\* boost::split(out, s, is_any_of(",")): token_compress_off, so an empty
\* string gives one empty token and adjacent commas give empty tokens
RECURSIVE Split(_)
Split(s) ==
    LET commas == Positions(s, ",")
    IN  IF commas = {} THEN <<s>>
        ELSE LET i == SetMin(commas)
             IN  <<SubSeq(s, 1, i - 1)>> \o Split(SubSeq(s, i + 1, Len(s)))

---------------------------------------------------------------------------
(* std::filesystem::path *)

IsSlash(c) == c \in {"/", "\\"}

\* path elements: the key identity of std::map<fs::path, ...>
RECURSIVE PathElems(_)
PathElems(p) ==
    LET slashes == {i \in 1..Len(p) : IsSlash(p[i])}
    IN  IF slashes = {} THEN (IF p = <<>> THEN <<>> ELSE <<p>>)
        ELSE LET i == SetMin(slashes)
             IN  (IF i = 1 THEN <<>> ELSE <<SubSeq(p, 1, i - 1)>>)
                 \o PathElems(SubSeq(p, i + 1, Len(p)))

\* path::filename
Filename(p) ==
    LET e == PathElems(p) IN IF e = <<>> THEN <<>> ELSE e[Len(e)]

\* path::extension: from the last '.', unless that is the first character
\* of the file name (".profile" has no extension)
Extension(p) ==
    LET f == Filename(p)
        dots == Positions(f, ".")
    IN  IF dots = {} \/ SetMax(dots) = 1 \/ f = <<".", ".">> THEN <<>>
        ELSE SubSeq(f, SetMax(dots), Len(f))

\* path::operator/ with the preferred separator
PathJoin(folder, file) ==
    IF folder = <<>> THEN file ELSE folder \o <<"\\">> \o file

---------------------------------------------------------------------------
(* BethesdaDirectoryIterator: pure parts *)

\* the [Archive] fields read from the game INI, in declaration order
ini_bsa_fields == <<"sResourceArchiveList", "sResourceArchiveList2">>

DotBsa == <<".", "b", "s", "a">>
DotEsp == <<".", "e", "s", "p">>
DotEsl == <<".", "e", "s", "l">>
DotEsm == <<".", "e", "s", "m">>
LOOSE_FILES == <<"L", "O", "O", "S", "E", "_", "F", "I", "L", "E", "S">>

\* mutant: the tokens are not trimmed
IniComponents_NoTrim(cur_val) == Split(cur_val)

\* the loop body of getBSAFilesFromINIs for one present field: split, trim
IniComponents(cur_val) ==
    LET ini_components == Split(cur_val)
    IN  [i \in 1..Len(ini_components) |-> Trim(ini_components[i])]

RECURSIVE IniFieldsLoop(_, _)
IniFieldsLoop(pt, k) ==
    IF k > Len(ini_bsa_fields) THEN <<>>
    ELSE (IF ini_bsa_fields[k] \in DOMAIN pt
          THEN IniComponents(pt[ini_bsa_fields[k]])
          ELSE <<>>)                      \* get<string> throws: log, continue
         \o IniFieldsLoop(pt, k + 1)

getBSAFilesFromINIs(pt) == IniFieldsLoop(pt, 1)

\* mutant: find_first_of('.') instead of find_last_of('.')
TrimExtension_FirstDot(line) ==
    LET dots == Positions(line, ".")
    IN  IF dots = {} THEN line ELSE SubSeq(line, 1, SetMin(dots) - 1)

\* line.substr(0, line.find_last_of('.')): npos keeps the whole line
TrimExtension(line) ==
    LET dots == Positions(line, ".")
    IN  IF dots = {} THEN line ELSE SubSeq(line, 1, SetMax(dots) - 1)

RECURSIVE getPluginLoadOrder(_, _)
getPluginLoadOrder(lines, trim_extension) ==
    IF lines = <<>> THEN <<>>
    ELSE LET line == Head(lines)
             rest == getPluginLoadOrder(Tail(lines), trim_extension)
         IN  IF line = <<>> \/ line[1] = "#" THEN rest
             ELSE <<IF trim_extension THEN TrimExtension(line) ELSE line>>
                  \o rest

\* fs::directory_iterator(data_dir): the direct children only
RECURSIVE getBSAFilesInDirectory(_)
getBSAFilesInDirectory(dir) ==
    IF dir = <<>> THEN <<>>
    ELSE LET entry == Head(dir)
             rest == getBSAFilesInDirectory(Tail(dir))
         IN  IF Len(PathElems(entry)) = 1 /\ IEquals(Extension(entry), DotBsa)
             THEN <<Filename(entry)>> \o rest
             ELSE rest

\* one iteration of the loop of findBSAFilesFromPluginName
FindStep(bsa_files_found, bsa, plugin_prefix) ==
    IF ~StartsWith(bsa, plugin_prefix) THEN bsa_files_found
    ELSE IF bsa = plugin_prefix \o DotBsa THEN <<bsa>> \o bsa_files_found
    ELSE LET after_prefix == Substr(bsa, Len(plugin_prefix))
             space == StartsWith(after_prefix, <<" ">>)
             digit == after_prefix # <<>> /\ IsDigit(after_prefix[1])
         IN  IF space /\ ~StartsWith(after_prefix, <<" ", "-">>)
             THEN bsa_files_found
             ELSE IF ~space /\ ~digit THEN bsa_files_found
             ELSE Append(bsa_files_found, bsa)

RECURSIVE FindLoop(_, _, _)
FindLoop(bsa_files_found, bsa_file_list, plugin_prefix) ==
    IF bsa_file_list = <<>> THEN bsa_files_found
    ELSE FindLoop(FindStep(bsa_files_found, Head(bsa_file_list), plugin_prefix),
                  Tail(bsa_file_list), plugin_prefix)

findBSAFilesFromPluginName(bsa_file_list, plugin_prefix) ==
    FindLoop(<<>>, bsa_file_list, plugin_prefix)

Range(s) == {s[i] : i \in 1..Len(s)}

\* ParallaxGenUtil: append the elements of vec2 that vec1 does not hold yet
RECURSIVE concatenateVectorsWithoutDuplicates(_, _)
concatenateVectorsWithoutDuplicates(vec1, vec2) ==
    IF vec2 = <<>> THEN vec1
    ELSE concatenateVectorsWithoutDuplicates(
             IF Head(vec2) \in Range(vec1) THEN vec1 ELSE Append(vec1, Head(vec2)),
             Tail(vec2))

\* mutant: the check looks at the INI list only, not at the final list
NotLoaded_Silent(all, out) == {}

\* the archives of the data directory no entry of the list names (lines 140-144)
NotLoaded(all, out) == {all[i] : i \in {j \in 1..Len(all) : all[j] \notin Range(out)}}

---------------------------------------------------------------------------
(* The file system and the file map *)

LowerElems(p) == LET e == PathElems(p) IN [i \in 1..Len(e) |-> ToLower(e[i])]

IsPrefixSeq(a, b) == Len(a) <= Len(b) /\ SubSeq(b, 1, Len(a)) = a

\* the regular files of dir that name opens (names are case-insensitive on disk)
FilesNamed(dir, name) ==
    {i \in 1..Len(dir) : LowerElems(dir[i]) = LowerElems(name)}

\* fs::exists(data_dir / bsa_name): a file, or a directory on the way to one
FsExists(dir, name) ==
    \E i \in 1..Len(dir) : IsPrefixSeq(LowerElems(name), LowerElems(dir[i]))

\* bsa_obj.read succeeds on a regular file that is an archive
Readable(dir, data, name) ==
    \E i \in FilesNamed(dir, name) : dir[i] \in DOMAIN data

ArchiveEntries(dir, data, name) ==
    data[dir[CHOOSE i \in FilesNamed(dir, name) : dir[i] \in DOMAIN data]]

EmptyMap == [k \in {} |-> <<>>]

\* fileMap[key] = origin
MapAssign(fm, path, origin) == (PathElems(path) :> origin) @@ fm

\* mutant: fileMap.insert, which keeps the entry an earlier archive made
RECURSIVE addBSAToFileMap_KeepFirst(_, _, _)
addBSAToFileMap_KeepFirst(fm, bsa_name, entries) ==
    IF entries = <<>> THEN fm
    ELSE LET cur_path == PathJoin(Head(entries)[1], Head(entries)[2])
         IN  addBSAToFileMap_KeepFirst(
                 fm @@ (PathElems(cur_path) :> bsa_name), bsa_name, Tail(entries))

RECURSIVE addBSAToFileMap(_, _, _)
addBSAToFileMap(fm, bsa_name, entries) ==
    IF entries = <<>> THEN fm
    ELSE LET folder_name == Head(entries)[1]
             cur_entry == Head(entries)[2]
             cur_path == PathJoin(folder_name, cur_entry)
         IN  addBSAToFileMap(MapAssign(fm, cur_path, bsa_name), bsa_name,
                             Tail(entries))

\* the extensions addLooseFilesToMap skips
SkippedExtension(file_extension) ==
    file_extension \in {DotBsa, DotEsp, DotEsl, DotEsm}

\* mutant: fileMap.insert, which keeps the entry an archive made
RECURSIVE addLooseFilesToMap_KeepArchive(_, _)
addLooseFilesToMap_KeepArchive(fm, dir) ==
    IF dir = <<>> THEN fm
    ELSE addLooseFilesToMap_KeepArchive(
             IF SkippedExtension(Extension(Head(dir))) THEN fm
             ELSE fm @@ (PathElems(Head(dir)) :> LOOSE_FILES),
             Tail(dir))

RECURSIVE addLooseFilesToMap(_, _)
addLooseFilesToMap(fm, dir) ==
    IF dir = <<>> THEN fm
    ELSE LET relative_path == Head(dir)
         IN  addLooseFilesToMap(
                 IF SkippedExtension(Extension(relative_path)) THEN fm
                 ELSE MapAssign(fm, relative_path, LOOSE_FILES),
                 Tail(dir))

---------------------------------------------------------------------------
(* nlohmann::json values: records tagged with the value's type *)

Null == [t |-> "null"]
Num(n) == [t |-> "number", n |-> n]
Str(str) == [t |-> "string", s |-> str]
Arr(items) == [t |-> "array", a |-> items]
Obj(members) == [t |-> "object", o |-> members]
NoMembers == [k \in {} |-> Null]

\* what a file holds when it is missing, or is no JSON text
Absent == [t |-> "absent"]
Malformed == [t |-> "malformed"]

\* object keys in the iteration order of std::map
KeyOrder == <<"a", "b">>

\* json::contains(key)
Contains(j, key) == j.t = "object" /\ key \in DOMAIN j.o

\* json::operator[](key) is defined on objects and on null, which becomes
\* an object; on every other type it throws type_error 305
Indexable(j) == j.t \in {"object", "null"}

Members(j) == IF j.t = "object" THEN j.o ELSE NoMembers

\* target[key] = v
SetKey(j, key, v) == Obj((key :> v) @@ Members(j))

\* the values begin()..end() runs over: the elements of an array, the
\* values of an object, nothing for null, the value itself for a scalar
Elements(j) ==
    CASE j.t = "array" -> Range(j.a)
      [] j.t = "object" -> {j.o[k] : k \in DOMAIN j.o}
      [] j.t = "null" -> {}
      [] OTHER -> {j}

\* mutant: every source item is appended, equal or not
RECURSIVE PushNewItems_NoFind(_, _)
PushNewItems_NoFind(cur, items) ==
    IF items = <<>> THEN [ok |-> TRUE, v |-> cur]
    ELSE IF cur.t = "array"
         THEN PushNewItems_NoFind(Arr(Append(cur.a, Head(items))), Tail(items))
    ELSE IF cur.t = "null"
         THEN PushNewItems_NoFind(Arr(<<Head(items)>>), Tail(items))
    ELSE [ok |-> FALSE, v |-> cur]

\* the inner loop of the array branch (lines 243-247): push_back is defined
\* on arrays and on null; on every other type it throws type_error 308
RECURSIVE PushNewItems(_, _)
PushNewItems(cur, items) ==
    IF items = <<>> THEN [ok |-> TRUE, v |-> cur]
    ELSE IF Head(items) \in Elements(cur) THEN PushNewItems(cur, Tail(items))
    ELSE IF cur.t = "array"
         THEN PushNewItems(Arr(Append(cur.a, Head(items))), Tail(items))
    ELSE IF cur.t = "null"
         THEN PushNewItems(Arr(<<Head(items)>>), Tail(items))
    ELSE [ok |-> FALSE, v |-> cur]

\* mutant: the array branch starts from an empty sequence, whatever the
\* target holds at the key
MergeArray_Restart(target, key, value) ==
    IF ~Contains(target, key) /\ ~Indexable(target)
    THEN [ok |-> FALSE, v |-> target]
    ELSE LET t1 == SetKey(target, key, Arr(<<>>))
             r == PushNewItems(t1.o[key], value.a)
         IN  [ok |-> r.ok, v |-> SetKey(t1, key, r.v)]

\* the array branch of merge_json_smart for one key (lines 239-247)
MergeArray(target, key, value) ==
    IF ~Contains(target, key) /\ ~Indexable(target)
    THEN [ok |-> FALSE, v |-> target]
    ELSE LET t1 == IF Contains(target, key) THEN target
                   ELSE SetKey(target, key, Arr(<<>>))
             r == PushNewItems(t1.o[key], value.a)
         IN  [ok |-> r.ok, v |-> SetKey(t1, key, r.v)]

\* merge_json_smart(target, source): ok is FALSE when a json::type_error is
\* thrown; v is the target as it stands then, or at the end
RECURSIVE MergeItems(_, _, _)
MergeItems(target, source, i) ==
    IF i > Len(KeyOrder) THEN [ok |-> TRUE, v |-> target]
    ELSE IF ~Contains(source, KeyOrder[i]) THEN MergeItems(target, source, i + 1)
    ELSE LET key == KeyOrder[i]
             value == source.o[key]
             r == IF value.t = "object"
                  THEN IF ~Contains(target, key) /\ ~Indexable(target)
                       THEN [ok |-> FALSE, v |-> target]
                       ELSE LET t1 == IF Contains(target, key) THEN target
                                      ELSE SetKey(target, key, Obj(NoMembers))
                                sub == MergeItems(t1.o[key], value, 1)
                            IN  [ok |-> sub.ok, v |-> SetKey(t1, key, sub.v)]
                  ELSE IF value.t = "array" THEN MergeArray(target, key, value)
                  ELSE IF Indexable(target)
                       THEN [ok |-> TRUE, v |-> SetKey(target, key, value)]
                       ELSE [ok |-> FALSE, v |-> target]
         IN  IF r.ok THEN MergeItems(r.v, source, i + 1) ELSE r

merge_json_smart(target, source) == MergeItems(target, source, 1)

\* json::merge_patch (RFC 7386), used for the default config
RECURSIVE merge_patch(_, _)
merge_patch(target, patch) ==
    IF patch.t # "object" THEN patch
    ELSE LET base == Members(target)
             keep == {k \in DOMAIN base \cup DOMAIN patch.o :
                         k \in DOMAIN patch.o => patch.o[k].t # "null"}
         IN  Obj([k \in keep |->
                     IF k \notin DOMAIN patch.o THEN base[k]
                     ELSE merge_patch(IF k \in DOMAIN base THEN base[k] ELSE Null,
                                      patch.o[k])])

\* replaceForwardSlashes
RECURSIVE replaceForwardSlashes(_)
replaceForwardSlashes(j) ==
    CASE j.t = "string" ->
             Str([i \in 1..Len(j.s) |-> IF j.s[i] = "/" THEN "\\" ELSE j.s[i]])
      [] j.t = "object" ->
             Obj([k \in DOMAIN j.o |-> replaceForwardSlashes(j.o[k])])
      [] j.t = "array" ->
             Arr([i \in 1..Len(j.a) |-> replaceForwardSlashes(j.a[i])])
      [] OTHER -> j

---------------------------------------------------------------------------
(* ParallaxGenDirectory::loadPGConfig, step by step *)

CfgIdle ==
    /\ cfg_pc = "idle" /\ load_default = FALSE /\ default_json = Absent
    /\ pg_configs = <<>> /\ cfg_i = 0 /\ PG_config = Null /\ cfg_count = 0
    /\ cfg_warned = {}

CfgStart ==
    /\ cfg_pc = "default" /\ cfg_i = 0 /\ PG_config = Null /\ cfg_count = 0
    /\ cfg_warned = {}

\* load_default is false: straight to the load-order configs
SkipDefault ==
    /\ cfg_pc = "default"
    /\ ~load_default
    /\ cfg_pc' = "configs"
    /\ UNCHANGED <<load_default, default_json, pg_configs, cfg_i, PG_config,
                   cfg_count, cfg_warned>>
    /\ UNCHANGED <<bdiEnv, bdiVars, cmVars>>

\* cfg/default.json does not exist: exitWithUserInput(1)
DefaultMissing ==
    /\ cfg_pc = "default"
    /\ load_default
    /\ default_json.t = "absent"
    /\ cfg_pc' = "exited"
    /\ UNCHANGED <<load_default, default_json, pg_configs, cfg_i, PG_config,
                   cfg_count, cfg_warned>>
    /\ UNCHANGED <<bdiEnv, bdiVars, cmVars>>

\* cfg/default.json does not parse: the parse_error leaves loadPGConfig
DefaultMalformed ==
    /\ cfg_pc = "default"
    /\ load_default
    /\ default_json.t = "malformed"
    /\ cfg_pc' = "threw"
    /\ UNCHANGED <<load_default, default_json, pg_configs, cfg_i, PG_config,
                   cfg_count, cfg_warned>>
    /\ UNCHANGED <<bdiEnv, bdiVars, cmVars>>

\* PG_config.merge_patch(default config)
MergeDefault ==
    /\ cfg_pc = "default"
    /\ load_default
    /\ default_json.t \notin {"absent", "malformed"}
    /\ PG_config' = merge_patch(PG_config, default_json)
    /\ cfg_pc' = "configs"
    /\ UNCHANGED <<load_default, default_json, pg_configs, cfg_i, cfg_count,
                   cfg_warned>>
    /\ UNCHANGED <<bdiEnv, bdiVars, cmVars>>

\* a fragment that does not parse: warn, continue
SkipMalformed ==
    /\ cfg_pc = "configs"
    /\ cfg_i < Len(pg_configs)
    /\ pg_configs[cfg_i + 1].t = "malformed"
    /\ cfg_warned' = cfg_warned \cup {cfg_i + 1}
    /\ cfg_i' = cfg_i + 1
    /\ UNCHANGED <<cfg_pc, load_default, default_json, pg_configs, PG_config,
                   cfg_count>>
    /\ UNCHANGED <<bdiEnv, bdiVars, cmVars>>

\* a fragment that parses and merges
MergeFragment ==
    /\ cfg_pc = "configs"
    /\ cfg_i < Len(pg_configs)
    /\ pg_configs[cfg_i + 1].t # "malformed"
    /\ merge_json_smart(PG_config, pg_configs[cfg_i + 1]).ok
    /\ PG_config' = merge_json_smart(PG_config, pg_configs[cfg_i + 1]).v
    /\ cfg_count' = cfg_count + 1
    /\ cfg_i' = cfg_i + 1
    /\ UNCHANGED <<cfg_pc, load_default, default_json, pg_configs, cfg_warned>>
    /\ UNCHANGED <<bdiEnv, bdiVars, cmVars>>

\* a fragment whose merge throws json::type_error: only parse_error is
\* caught (line 155), so the exception leaves loadPGConfig
MergeThrows ==
    /\ cfg_pc = "configs"
    /\ cfg_i < Len(pg_configs)
    /\ pg_configs[cfg_i + 1].t # "malformed"
    /\ ~merge_json_smart(PG_config, pg_configs[cfg_i + 1]).ok
    /\ PG_config' = merge_json_smart(PG_config, pg_configs[cfg_i + 1]).v
    /\ cfg_pc' = "threw"
    /\ UNCHANGED <<load_default, default_json, pg_configs, cfg_i, cfg_count,
                   cfg_warned>>
    /\ UNCHANGED <<bdiEnv, bdiVars, cmVars>>

\* after the loop: replaceForwardSlashes(PG_config)
FinishConfig ==
    /\ cfg_pc = "configs"
    /\ cfg_i = Len(pg_configs)
    /\ PG_config' = replaceForwardSlashes(PG_config)
    /\ cfg_pc' = "done"
    /\ UNCHANGED <<load_default, default_json, pg_configs, cfg_i, cfg_count,
                   cfg_warned>>
    /\ UNCHANGED <<bdiEnv, bdiVars, cmVars>>

NextCfg ==
    \/ SkipDefault
    \/ DefaultMissing
    \/ DefaultMalformed
    \/ MergeDefault
    \/ SkipMalformed
    \/ MergeFragment
    \/ MergeThrows
    \/ FinishConfig

---------------------------------------------------------------------------
(* ParallaxGenDirectory::findComplexMaterialMaps, from the loop over the
   candidates on *)

\* what LoadFromDDSMemory and IsAlphaAllOpaque make of a candidate
Undecodable == "undecodable"
Opaque == "opaque"
UsesAlpha == "alpha"

NoImages == [f \in {} |-> Undecodable]

CmIdle ==
    /\ cm_pc = "idle" /\ env_maps = <<>> /\ dds = NoImages /\ cm_i = 0
    /\ complexMaterialMaps = <<>> /\ cm_warned = {}

CmStart ==
    /\ cm_pc = "env_maps" /\ cm_i = 0
    /\ complexMaterialMaps = <<>> /\ cm_warned = {}

\* mutant: return instead of continue, the candidates after a failed
\* decode are not examined
DecodeFails_Returns ==
    /\ cm_pc = "env_maps"
    /\ cm_i < Len(env_maps)
    /\ dds[env_maps[cm_i + 1]] = Undecodable
    /\ cm_warned' = cm_warned \cup {env_maps[cm_i + 1]}
    /\ cm_pc' = "done"
    /\ UNCHANGED <<env_maps, dds, cm_i, complexMaterialMaps>>
    /\ UNCHANGED <<bdiEnv, bdiVars, cfgVars>>

\* FAILED(hr): warn, continue
DecodeFails ==
    /\ cm_pc = "env_maps"
    /\ cm_i < Len(env_maps)
    /\ dds[env_maps[cm_i + 1]] = Undecodable
    /\ cm_warned' = cm_warned \cup {env_maps[cm_i + 1]}
    /\ cm_i' = cm_i + 1
    /\ UNCHANGED <<cm_pc, env_maps, dds, complexMaterialMaps>>
    /\ UNCHANGED <<bdiEnv, bdiVars, cfgVars>>

\* the image loads and IsAlphaAllOpaque(): nothing is added
AlphaAllOpaque ==
    /\ cm_pc = "env_maps"
    /\ cm_i < Len(env_maps)
    /\ dds[env_maps[cm_i + 1]] = Opaque
    /\ cm_i' = cm_i + 1
    /\ UNCHANGED <<cm_pc, env_maps, dds, complexMaterialMaps, cm_warned>>
    /\ UNCHANGED <<bdiEnv, bdiVars, cfgVars>>

\* the image loads and its alpha channel is used: push_back
AddComplexMaterial ==
    /\ cm_pc = "env_maps"
    /\ cm_i < Len(env_maps)
    /\ dds[env_maps[cm_i + 1]] = UsesAlpha
    /\ complexMaterialMaps' = Append(complexMaterialMaps, env_maps[cm_i + 1])
    /\ cm_i' = cm_i + 1
    /\ UNCHANGED <<cm_pc, env_maps, dds, cm_warned>>
    /\ UNCHANGED <<bdiEnv, bdiVars, cfgVars>>

\* after the loop
FinishComplexMaterialMaps ==
    /\ cm_pc = "env_maps"
    /\ cm_i = Len(env_maps)
    /\ cm_pc' = "done"
    /\ UNCHANGED <<env_maps, dds, cm_i, complexMaterialMaps, cm_warned>>
    /\ UNCHANGED <<bdiEnv, bdiVars, cfgVars>>

NextCm ==
    \/ DecodeFails
    \/ AlphaAllOpaque
    \/ AddComplexMaterial
    \/ FinishComplexMaterialMaps

---------------------------------------------------------------------------
(* BethesdaDirectoryIterator::populateFileMap, step by step *)

BdiStart ==
    /\ pc = "getBSAPriorityList"
    /\ out_bsa_order = <<>> /\ load_order = <<>> /\ all_bsa_files = <<>>
    /\ plugin_i = 0 /\ cur_found_bsas = <<>>
    /\ bsa_files = <<>> /\ bsa_i = 0
    /\ fileMap = EmptyMap /\ warned = {}

\* getBSAPriorityList up to its plugin loop
GetBSAPriorityList ==
    /\ pc = "getBSAPriorityList"
    /\ out_bsa_order' = getBSAFilesFromINIs(pt_ini)
    /\ load_order' = getPluginLoadOrder(loadorder_txt, TRUE)
    /\ all_bsa_files' = getBSAFilesInDirectory(data_dir)
    /\ pc' = "plugins"
    /\ UNCHANGED <<plugin_i, cur_found_bsas, bsa_files, bsa_i, fileMap, warned>>
    /\ UNCHANGED <<bdiEnv, cfgVars, cmVars>>

\* one iteration of the plugin loop of getBSAPriorityList
PluginStep ==
    /\ pc = "plugins"
    /\ plugin_i < Len(load_order)
    /\ LET plugin == load_order[plugin_i + 1]
           found == findBSAFilesFromPluginName(all_bsa_files, plugin)
       IN  /\ cur_found_bsas' = found
           /\ out_bsa_order' =
                  concatenateVectorsWithoutDuplicates(out_bsa_order, found)
    /\ plugin_i' = plugin_i + 1
    /\ UNCHANGED <<pc, load_order, all_bsa_files, bsa_files, bsa_i, fileMap,
                   warned>>
    /\ UNCHANGED <<bdiEnv, cfgVars, cmVars>>

\* the end of getBSAPriorityList: warn about archives not loaded, return
ReturnPriorityList ==
    /\ pc = "plugins"
    /\ plugin_i = Len(load_order)
    /\ warned' = warned \cup
                     {<<"not loaded", b>> : b \in NotLoaded(all_bsa_files, out_bsa_order)}
    /\ bsa_files' = out_bsa_order
    /\ pc' = "archives"
    /\ UNCHANGED <<out_bsa_order, load_order, all_bsa_files, plugin_i,
                   cur_found_bsas, bsa_i, fileMap>>
    /\ UNCHANGED <<bdiEnv, cfgVars, cmVars>>

\* mutant: break instead of continue, the archives after a missing one
\* are left out
SkipMissingBSA_Stops ==
    /\ pc = "archives"
    /\ bsa_i < Len(bsa_files)
    /\ ~FsExists(data_dir, bsa_files[bsa_i + 1])
    /\ warned' = warned \cup {<<"missing", bsa_files[bsa_i + 1]>>}
    /\ bsa_i' = Len(bsa_files)
    /\ UNCHANGED <<pc, out_bsa_order, load_order, all_bsa_files, plugin_i,
                   cur_found_bsas, bsa_files, fileMap>>
    /\ UNCHANGED <<bdiEnv, cfgVars, cmVars>>

\* the archive loop of populateFileMap: the archive is not on disk
SkipMissingBSA ==
    /\ pc = "archives"
    /\ bsa_i < Len(bsa_files)
    /\ ~FsExists(data_dir, bsa_files[bsa_i + 1])
    /\ warned' = warned \cup {<<"missing", bsa_files[bsa_i + 1]>>}
    /\ bsa_i' = bsa_i + 1
    /\ UNCHANGED <<pc, out_bsa_order, load_order, all_bsa_files, plugin_i,
                   cur_found_bsas, bsa_files, fileMap>>
    /\ UNCHANGED <<bdiEnv, cfgVars, cmVars>>

\* the archive loop: the path exists but bsa_obj.read throws (a directory)
ReadBSAFails ==
    /\ pc = "archives"
    /\ bsa_i < Len(bsa_files)
    /\ FsExists(data_dir, bsa_files[bsa_i + 1])
    /\ ~Readable(data_dir, bsa_data, bsa_files[bsa_i + 1])
    /\ pc' = "aborted"
    /\ UNCHANGED <<out_bsa_order, load_order, all_bsa_files, plugin_i,
                   cur_found_bsas, bsa_files, bsa_i, fileMap, warned>>
    /\ UNCHANGED <<bdiEnv, cfgVars, cmVars>>

\* the archive loop: read the archive, add its entries
AddBSA ==
    /\ pc = "archives"
    /\ bsa_i < Len(bsa_files)
    /\ Readable(data_dir, bsa_data, bsa_files[bsa_i + 1])
    /\ fileMap' = addBSAToFileMap(fileMap, bsa_files[bsa_i + 1],
                      ArchiveEntries(data_dir, bsa_data, bsa_files[bsa_i + 1]))
    /\ bsa_i' = bsa_i + 1
    /\ UNCHANGED <<pc, out_bsa_order, load_order, all_bsa_files, plugin_i,
                   cur_found_bsas, bsa_files, warned>>
    /\ UNCHANGED <<bdiEnv, cfgVars, cmVars>>

\* after the archive loop: the loose files
AddLooseFiles ==
    /\ pc = "archives"
    /\ bsa_i = Len(bsa_files)
    /\ fileMap' = addLooseFilesToMap(fileMap, data_dir)
    /\ pc' = "done"
    /\ UNCHANGED <<out_bsa_order, load_order, all_bsa_files, plugin_i,
                   cur_found_bsas, bsa_files, bsa_i, warned>>
    /\ UNCHANGED <<bdiEnv, cfgVars, cmVars>>

\* a call of getPluginLoadOrder(arg_trim_extension) on its own
CallGetPluginLoadOrder ==
    /\ pc = "getPluginLoadOrder"
    /\ load_order' = getPluginLoadOrder(loadorder_txt, arg_trim_extension)
    /\ pc' = "returned"
    /\ UNCHANGED <<out_bsa_order, all_bsa_files, plugin_i, cur_found_bsas,
                   bsa_files, bsa_i, fileMap, warned>>
    /\ UNCHANGED <<bdiEnv, cfgVars, cmVars>>

NextLoadOrder == CallGetPluginLoadOrder

NextBdi ==
    \/ GetBSAPriorityList
    \/ PluginStep
    \/ ReturnPriorityList
    \/ SkipMissingBSA
    \/ ReadBSAFails
    \/ AddBSA
    \/ AddLooseFiles

---------------------------------------------------------------------------
(* Bounds and input universes *)

MaxEntries == 1    \* entries of one archive
MaxLoose == 1      \* loose files under the data directory
MaxFiles == 3      \* archive files in the data directory (resolver runs)
MaxLines == 2      \* lines of loadorder.txt (resolver runs)
MaxArr == 2        \* elements of a JSON array of a config file
MaxFragments == 2  \* config fragments found in the load order
MaxLoadOrderLines == 3  \* lines of loadorder.txt (load-order runs)
MaxCandidates == 3  \* "_m.dds" candidates of findComplexMaterialMaps

\* the elements of seq at the positions S, in order
Pick(seq, S) ==
    LET F[i \in 0..Len(seq)] ==
            IF i = 0 THEN <<>>
            ELSE IF i \in S THEN Append(F[i - 1], seq[i]) ELSE F[i - 1]
    IN  F[Len(seq)]

\* no two files of one directory differ in letter case only
CaseDistinct(files) ==
    \A i, j \in 1..Len(files) :
        i # j => LowerElems(files[i]) # LowerElems(files[j])

\* sequences over S of length at most n without repetition
RECURSIVE Arrangements(_, _)
Arrangements(S, n) ==
    IF n = 0 THEN {<<>>}
    ELSE LET shorter == Arrangements(S, n - 1)
         IN  shorter \cup {Append(q, x) : q \in shorter, x \in S}

Injective(q) == \A i, j \in 1..Len(q) : i # j => q[i] # q[j]

RECURSIVE SeqsUpTo(_, _)
SeqsUpTo(S, n) ==
    IF n = 0 THEN {<<>>}
    ELSE LET shorter == SeqsUpTo(S, n - 1)
         IN  shorter \cup {Append(q, x) : q \in shorter, x \in S}

NoPt == [f \in {} |-> <<>>]

\* ---- file map runs: few archive names, varied archive entries and loose files
A_bsa == <<"a", ".", "b", "s", "a">>
B_bsa == <<"b", ".", "b", "s", "a">>
C_bsa == <<"c", ".", "b", "s", "a">>

ArchiveEntryUniverse ==
    << <<<<"t">>, <<"x", ".", "d", "d", "s">>>>, <<<<"T">>, <<"x", ".", "d", "d", "s">>>>,
       <<<<"t", "/", "u">>, <<"x", ".", "d", "d", "s">>>>, <<<<"t", "\\", "u">>, <<"x", ".", "d", "d", "s">>>>,
       <<<<>>, <<"y", ".", "e", "s", "p">>>> >>

LooseUniverse ==
    <<<<"t", "\\", "x", ".", "d", "d", "s">>, <<"T", "\\", "x", ".", "d", "d", "s">>,
      <<"t", "\\", "u", "\\", "x", ".", "d", "d", "s">>, <<"y", ".", "e", "s", "p">>>>

EntryChoices ==
    {Pick(ArchiveEntryUniverse, S) :
        S \in {X \in SUBSET (1..Len(ArchiveEntryUniverse)) : Cardinality(X) <= MaxEntries}}

LooseChoices ==
    {q \in {Pick(LooseUniverse, S) :
               S \in {X \in SUBSET (1..Len(LooseUniverse)) : Cardinality(X) <= MaxLoose}} :
        CaseDistinct(q)}

IniChoicesFileMap ==
    { NoPt,
      (ini_bsa_fields[1] :> <<"b", ".", "b", "s", "a", ",", " ", "a", ".", "b", "s", "a">>),
      (ini_bsa_fields[1] :> <<"c", ".", "b", "s", "a", ",", "A", ".", "b", "s", "a">>) @@ (ini_bsa_fields[2] :> <<"b", ".", "b", "s", "a">>),
      (ini_bsa_fields[2] :> <<"a", ".", "b", "s", "a", ",", "b", ".", "b", "s", "a", ",", "a", ".", "b", "s", "a">>),
      (ini_bsa_fields[1] :> <<>>) }

LoadOrderChoicesFileMap ==
    { <<>>, <<<<"a", ".", "e", "s", "p">>>>, <<<<"b", ".", "e", "s", "p">>, <<"a", ".", "e", "s", "p">>>> }

InitFileMap ==
    /\ pt_ini \in IniChoicesFileMap
    /\ loadorder_txt \in LoadOrderChoicesFileMap
    /\ \E arch \in SUBSET {1, 2}, loose \in LooseChoices :
          /\ data_dir = Pick(<<A_bsa, B_bsa>>, arch) \o loose
          /\ bsa_data \in [Range(Pick(<<A_bsa, B_bsa>>, arch)) -> EntryChoices]
    /\ arg_trim_extension = TRUE
    /\ BdiStart
    /\ CfgIdle
    /\ CmIdle

Spec == InitFileMap /\ [][NextBdi]_vars

---------------------------------------------------------------------------
(* Config runs: the default config and the first fragment range over every
   mapping of the universe, the fragments after it over a few *)

JsonItems == {Num(1), Str(<<"a", "/", "b">>)}

JsonArrays == {Arr(q) : q \in SeqsUpTo(JsonItems, MaxArr)}

JsonInnerObjects ==
    { Obj(NoMembers), Obj("a" :> Num(1)), Obj("a" :> Arr(<<Num(1)>>)) }

JsonValues == JsonItems \cup JsonArrays \cup JsonInnerObjects

JsonMappings ==
    {Obj(fa @@ fb) :
        fa \in {NoMembers} \cup {("a" :> v) : v \in JsonValues},
        fb \in {NoMembers, ("b" :> Num(1)), ("b" :> Arr(<<Num(1)>>))}}

LaterFragments ==
    { Malformed, Obj("a" :> Arr(<<Num(1)>>)), Obj("b" :> Str(<<"a", "/", "b">>)) }

FragmentLists ==
    {<<>>} \cup
    {<<first>> \o rest :
        first \in JsonMappings \cup {Malformed},
        rest \in SeqsUpTo(LaterFragments, MaxFragments - 1)}

InitConfig ==
    /\ load_default \in BOOLEAN
    /\ default_json \in
          IF load_default THEN JsonMappings \cup {Absent, Malformed} ELSE {Absent}
    /\ pg_configs \in FragmentLists
    /\ CfgStart
    /\ pt_ini = NoPt /\ loadorder_txt = <<>> /\ data_dir = <<>>
    /\ bsa_data = [f \in {} |-> <<>>]
    /\ arg_trim_extension = TRUE
    /\ BdiStart
    /\ CmIdle

SpecConfig == InitConfig /\ [][NextCfg]_vars

---------------------------------------------------------------------------
(* Claims about the file map *)

\* the keys of the entries of archive name, when it is read
ArchiveKeys(name) ==
    IF Readable(data_dir, bsa_data, name)
    THEN {PathElems(PathJoin(e[1], e[2])) :
             e \in Range(ArchiveEntries(data_dir, bsa_data, name))}
    ELSE {}

\* the keys of the loose files whose extension is none of the four skipped
LooseKeys ==
    {PathElems(data_dir[i]) :
        i \in {j \in 1..Len(data_dir) :
                 Extension(data_dir[j]) \notin {DotBsa, DotEsp, DotEsl, DotEsm}}}

\* C1: after populateFileMap, a path that a loaded archive contains and that
\* is also a loose file (extension not skipped) has the loose-file origin,
\* wherever the archive stands in the priority list.
C1_LooseFilesOutrankArchives ==
    pc = "done" =>
        \A i \in 1..Len(bsa_files) :
            \A k \in ArchiveKeys(bsa_files[i]) \cap LooseKeys :
                k \in DOMAIN fileMap /\ fileMap[k] = LOOSE_FILES

C1_Witness ==
    /\ pc = "done"
    /\ Len(bsa_files) >= 2
    /\ ArchiveKeys(bsa_files[1]) \cap LooseKeys # {}
    /\ ArchiveKeys(bsa_files[Len(bsa_files)]) \cap LooseKeys # {}

\* archive B stands at position j, after an occurrence of another archive A,
\* both are read and hold key k, no loose file supplies k and no archive
\* other than B that stands after position j holds k
LaterArchiveCase(j, k) ==
    /\ k \in ArchiveKeys(bsa_files[j])
    /\ \E i \in 1..(j - 1) :
          bsa_files[i] # bsa_files[j] /\ k \in ArchiveKeys(bsa_files[i])
    /\ k \notin LooseKeys
    /\ \A m \in (j + 1)..Len(bsa_files) :
          k \in ArchiveKeys(bsa_files[m]) => bsa_files[m] = bsa_files[j]

\* C2: of two archives on disk that both contain a path, the one later in
\* the priority list is the origin, unless a loose file or a still later
\* archive supplies the path.
C2_LaterArchiveWins ==
    pc = "done" =>
        \A j \in 1..Len(bsa_files) : \A k \in ArchiveKeys(bsa_files[j]) :
            LaterArchiveCase(j, k) =>
                k \in DOMAIN fileMap /\ fileMap[k] = bsa_files[j]

C2_Witness ==
    /\ pc = "done"
    /\ \E j \in 1..Len(bsa_files) : \E k \in ArchiveKeys(bsa_files[j]) :
          LaterArchiveCase(j, k)

\* the virtual path of a key: letter case folded (slashes are already gone)
VirtualPath(key) == [i \in 1..Len(key) |-> ToLower(key[i])]

\* C3 (as claimed): paths equal up to letter case and slash direction share
\* one file-map entry after the build.
C3_OneEntryPerVirtualPath ==
    pc = "done" =>
        \A k1, k2 \in DOMAIN fileMap :
            VirtualPath(k1) = VirtualPath(k2) => k1 = k2

---------------------------------------------------------------------------
(* Resolver runs: varied archive names, load-order lines and INI values;
   every archive on disk holds one entry, in a folder named after it *)

ResolverFileUniverse ==
    { <<"a", ".", "b", "s", "a">>, <<"a", ".", "B", "S", "A">>,
      <<"a", "0", ".", "b", "s", "a">>,
      <<"a", " ", "-", "t", ".", "b", "s", "a">>,
      <<"a", " ", "t", ".", "b", "s", "a">>,
      <<"a", "b", ".", "b", "s", "a">> }

ResolverLineUniverse ==
    { <<"a", ".", "e", "s", "p">>, <<"a", "0", ".", "e", "s", "p">>, <<"#", "b">> }

IniChoicesResolve ==
    { NoPt,
      (ini_bsa_fields[1] :> <<" ", "a", ".", "b", "s", "a", " ", ",", "\t", "a", " ", "t", ".", "b", "s", "a">>),
      (ini_bsa_fields[1] :> <<"a", "0", ".", "b", "s", "a", ",", "a", "0", ".", "b", "s", "a">>)
          @@ (ini_bsa_fields[2] :> <<"a", "0", ".", "b", "s", "a", ",", " ", "c", ".", "b", "s", "a">>),
      (ini_bsa_fields[2] :> <<"a", "b", ".", "b", "s", "a", ",">>) }

InitResolve ==
    /\ pt_ini \in IniChoicesResolve
    /\ loadorder_txt \in SeqsUpTo(ResolverLineUniverse, MaxLines)
    /\ data_dir \in {q \in Arrangements(ResolverFileUniverse, MaxFiles) :
                        Injective(q) /\ CaseDistinct(q)}
    /\ bsa_data = [f \in Range(data_dir) |-> << <<f, <<"x", ".", "d", "d", "s">>>> >>]
    /\ arg_trim_extension = TRUE
    /\ BdiStart
    /\ CfgIdle
    /\ CmIdle

SpecResolve == InitResolve /\ [][NextBdi]_vars

---------------------------------------------------------------------------
(* Claims about the archive priority list *)

\* populateFileMap holds the list getBSAPriorityList returned
Returned == pc \in {"archives", "done", "aborted"}

Blank(c) == c \in {" ", "\t"}

\* t is seg without its leading and trailing blanks
IsTrimOf(t, seg) ==
    \E i \in 1..(Len(seg) + 1), j \in 0..Len(seg) :
        /\ t = SubSeq(seg, i, j)
        /\ \A m \in 1..(i - 1) : Blank(seg[m])
        /\ \A m \in (j + 1)..Len(seg) : Blank(seg[m])
        /\ t # <<>> => ~Blank(t[1]) /\ ~Blank(t[Len(t)])

\* the position of the n-th comma of v; 0 before the first, Len(v)+1 after the last
Cut(v, n) ==
    IF n = 0 THEN 0
    ELSE IF n > Cardinality(Positions(v, ",")) THEN Len(v) + 1
    ELSE CHOOSE c \in Positions(v, ",") :
             Cardinality({d \in Positions(v, ",") : d < c}) = n - 1

\* the number of tokens INI field k contributes
FieldCount(k) ==
    IF ini_bsa_fields[k] \in DOMAIN pt_ini
    THEN Cardinality(Positions(pt_ini[ini_bsa_fields[k]], ",")) + 1
    ELSE 0

RECURSIVE FieldOffset(_)
FieldOffset(k) == IF k = 1 THEN 0 ELSE FieldOffset(k - 1) + FieldCount(k - 1)

\* list holds, field after field, the trimmed comma-separated pieces
IsIniTokenList(list) ==
    /\ Len(list) = FieldOffset(Len(ini_bsa_fields) + 1)
    /\ \A k \in 1..Len(ini_bsa_fields) : \A n \in 1..FieldCount(k) :
          LET v == pt_ini[ini_bsa_fields[k]]
          IN  IsTrimOf(list[FieldOffset(k) + n],
                       SubSeq(v, Cut(v, n - 1) + 1, Cut(v, n) - 1))

\* C4: with an empty load order the returned list is exactly the trimmed
\* comma-separated tokens of the INI fields present, in field order; a
\* missing field adds nothing.
C4_IniSeedsList ==
    (Returned /\ load_order = <<>>) => IsIniTokenList(bsa_files)

C4_MissingFieldReached ==
    /\ Returned /\ load_order = <<>>
    /\ ini_bsa_fields[1] \notin DOMAIN pt_ini
    /\ Len(bsa_files) = 2
    /\ all_bsa_files # <<>>

C4_Witness ==
    /\ Returned /\ load_order = <<>>
    /\ DOMAIN pt_ini = {ini_bsa_fields[1]}
    /\ \E i \in 1..Len(pt_ini[ini_bsa_fields[1]]) :
          Blank(pt_ini[ini_bsa_fields[1]][i])
    /\ Len(bsa_files) = 2

\* the archive name without its extension
Stem(bsa) == SubSeq(bsa, 1, Len(bsa) - Len(Extension(bsa)))

\* the acceptance rule as claimed
Accepted(bsa, P) ==
    /\ StartsWith(bsa, P)
    /\ \/ Stem(bsa) = P
       \/ Len(bsa) > Len(P) /\ IsDigit(bsa[Len(P) + 1])
       \/ Len(bsa) > Len(P) + 1 /\ bsa[Len(P) + 1] = " " /\ bsa[Len(P) + 2] = "-"

\* C5 (as claimed): the archives accepted for plugin P are exactly those
\* that start with P and whose stem is P, or that go on with a digit or
\* with a space and a hyphen.
C5_AcceptedSet ==
    (pc = "plugins" /\ plugin_i > 0) =>
        Range(cur_found_bsas) =
            {b \in Range(all_bsa_files) : Accepted(b, load_order[plugin_i])}

\* C6 (as claimed): the archive whose stem is P comes first among the
\* matches of P, and the other matches keep their enumeration order.
C6_ExactFirst ==
    (pc = "plugins" /\ plugin_i > 0) =>
        LET P == load_order[plugin_i]
            exact == {b \in Range(all_bsa_files) : Stem(b) = P}
            others == SelectSeq(all_bsa_files,
                          LAMBDA b : b \in Range(cur_found_bsas) /\ Stem(b) # P)
        IN  /\ exact # {} => cur_found_bsas # <<>> /\ cur_found_bsas[1] \in exact
            /\ SelectSeq(cur_found_bsas, LAMBDA b : Stem(b) # P) = others

\* C7 (as claimed): the returned list names no archive twice.
C7_NoDuplicates == Returned => Injective(bsa_files)

\* seg, a comma-separated piece of an INI value, names archive b (file
\* names are case-insensitive on disk)
Names(seg, b) ==
    \E i \in 1..Len(seg) :
        /\ i + Len(b) - 1 <= Len(seg)
        /\ IEquals(SubSeq(seg, i, i + Len(b) - 1), b)
        /\ \A m \in 1..(i - 1) : Blank(seg[m])
        /\ \A m \in (i + Len(b))..Len(seg) : Blank(seg[m])

\* an archive on disk that no plugin accepts and no INI field names
Orphan(b) ==
    /\ b \in Range(all_bsa_files)
    /\ \A i \in 1..Len(load_order) :
          b \notin Range(findBSAFilesFromPluginName(all_bsa_files, load_order[i]))
    /\ \A k \in 1..Len(ini_bsa_fields) : \A n \in 1..FieldCount(k) :
          LET v == pt_ini[ini_bsa_fields[k]]
          IN  ~Names(SubSeq(v, Cut(v, n - 1) + 1, Cut(v, n) - 1), b)

\* C8: an orphan archive is warned about, is not in the returned list and
\* is the origin of no file-map entry; the run goes on.
C8_OrphanExcluded ==
    Returned =>
        \A b \in Range(all_bsa_files) :
            Orphan(b) =>
                /\ <<"not loaded", b>> \in warned
                /\ \A i \in 1..Len(bsa_files) : ~IEquals(bsa_files[i], b)
                /\ \A k \in DOMAIN fileMap : ~IEquals(fileMap[k], b)
                /\ PathElems(PathJoin(b, <<"x", ".", "d", "d", "s">>))
                       \notin DOMAIN fileMap

C8_Witness ==
    /\ pc = "done"
    /\ fileMap # EmptyMap
    /\ \E b \in Range(all_bsa_files) : Orphan(b)

---------------------------------------------------------------------------
(* Claims about merge_json_smart *)

\* loadPGConfig is about to merge a fragment that parsed
AboutToMerge ==
    /\ cfg_pc = "configs"
    /\ cfg_i < Len(pg_configs)
    /\ pg_configs[cfg_i + 1].t = "object"

IsArr(j) == j.t = "array"
IsObj(j) == j.t = "object"

\* R is T merged with S as claimed, on the keys both T and S have
RECURSIVE IsClaimedMerge(_, _, _)
IsClaimedMerge(R, T, S) ==
    \A k \in DOMAIN S.o \cap DOMAIN Members(T) :
          /\ IsObj(R) /\ k \in DOMAIN R.o
          /\ IF IsObj(T.o[k]) /\ IsObj(S.o[k])
             THEN IsClaimedMerge(R.o[k], T.o[k], S.o[k])
             ELSE IF IsArr(T.o[k]) /\ IsArr(S.o[k])
             THEN /\ IsArr(R.o[k])
                  /\ Range(R.o[k].a) = Range(T.o[k].a) \cup Range(S.o[k].a)
             ELSE R.o[k] = S.o[k]

\* C9 (as claimed): merging a fragment never fails, and for each of its
\* keys two mappings are merged, two sequences are united, and in every
\* other case, type mismatches included, the fragment's value replaces
\* the target's.
C9_MergeCases ==
    [][AboutToMerge =>
          /\ cfg_pc' # "threw"
          /\ IsClaimedMerge(PG_config', PG_config, pg_configs[cfg_i + 1])]_vars

\* the keys whose value is a sequence in both the target and the fragment
SequenceKeys(T, S) ==
    {k \in DOMAIN Members(T) \cap DOMAIN S.o : IsArr(T.o[k]) /\ IsArr(S.o[k])}

FirstPos(q, x) == SetMin({i \in 1..Len(q) : q[i] = x})

\* r is t followed by the elements of s that t lacks, each once, in the
\* order of their first occurrence in s
IsOrderedUnion(r, t, s) ==
    /\ Len(r) >= Len(t)
    /\ SubSeq(r, 1, Len(t)) = t
    /\ LET new == SubSeq(r, Len(t) + 1, Len(r))
       IN  /\ Injective(new)
           /\ Range(new) = Range(s) \ Range(t)
           /\ \A i, j \in 1..Len(new) :
                 i < j => FirstPos(s, new[i]) < FirstPos(s, new[j])

\* merging the fragment once more leaves the sequence at key k as it is
StableAt(R, S, k) ==
    LET again == merge_json_smart(R, S)
    IN  again.ok /\ again.v.o[k] = R.o[k]

\* C10 (as claimed): the merged sequence holds every element of T and of S,
\* no two equal elements, T first and then the new elements of S in the
\* order of S, and merging S again changes nothing.
C10_UnionNoDuplicates ==
    [][(AboutToMerge /\ cfg_pc' = "configs") =>
          \A k \in SequenceKeys(PG_config, pg_configs[cfg_i + 1]) :
              /\ IsOrderedUnion(PG_config'.o[k].a, PG_config.o[k].a,
                                pg_configs[cfg_i + 1].o[k].a)
              /\ Injective(PG_config'.o[k].a)
              /\ StableAt(PG_config', pg_configs[cfg_i + 1], k)]_vars

\* C10 (amended): the same, but the merged sequence has no two equal
\* elements only if T has none: T is kept as it is, duplicates included.
C10_UnionKeepsTarget ==
    [][(AboutToMerge /\ cfg_pc' = "configs") =>
          \A k \in SequenceKeys(PG_config, pg_configs[cfg_i + 1]) :
              /\ IsOrderedUnion(PG_config'.o[k].a, PG_config.o[k].a,
                                pg_configs[cfg_i + 1].o[k].a)
              /\ Injective(PG_config.o[k].a) => Injective(PG_config'.o[k].a)
              /\ StableAt(PG_config', pg_configs[cfg_i + 1], k)]_vars

\* the first fragment was merged into a default config whose sequence at
\* "a" has two elements, and brought a new element and a known one
C10_Witness ==
    /\ cfg_pc = "configs" /\ cfg_i = 1 /\ cfg_count = 1 /\ load_default
    /\ "a" \in SequenceKeys(default_json, pg_configs[1])
    /\ Len(default_json.o["a"].a) = 2
    /\ Len(pg_configs[1].o["a"].a) = 2
    /\ Len(PG_config.o["a"].a) = 3

\* loadPGConfig is about to merge a fragment equal to the merged configuration
SelfMerge == AboutToMerge /\ PG_config = pg_configs[cfg_i + 1]

\* C11: merging a mapping-rooted tree into an equal tree changes nothing:
\* the merge completes, and the keys, the scalars and the sequences, their
\* lengths and duplicates included, are those of the tree.
C11_SelfMergeIdentity ==
    [][SelfMerge =>
          /\ cfg_pc' = "configs"
          /\ cfg_count' = cfg_count + 1
          /\ PG_config' = PG_config]_vars

\* the first fragment equals the default config, which has a sequence with
\* two equal elements at "a" and a sequence at "b", and has been merged
C11_Witness ==
    /\ cfg_pc = "configs" /\ cfg_i = 1 /\ cfg_count = 1 /\ load_default
    /\ default_json.t = "object"
    /\ pg_configs[1] = default_json
    /\ PG_config = default_json
    /\ DOMAIN default_json.o = {"a", "b"}
    /\ IsArr(default_json.o["a"]) /\ IsArr(default_json.o["b"])
    /\ Len(default_json.o["a"].a) = 2
    /\ ~Injective(default_json.o["a"].a)

\* the next fragment of the loop does not parse
MalformedNext ==
    /\ cfg_pc = "configs"
    /\ cfg_i < Len(pg_configs)
    /\ pg_configs[cfg_i + 1].t = "malformed"

\* the default config is asked for and is missing or does not parse
BaseFatal == load_default /\ default_json.t \in {"absent", "malformed"}

ParsedFragments == {i \in 1..Len(pg_configs) : pg_configs[i].t # "malformed"}

\* C12 (as claimed): a fragment that does not parse is skipped with a
\* warning and leaves the merged configuration as it was; the fragments
\* after it are still merged, so a finished run has merged every fragment
\* that parses; and a run ends early only when the default config is
\* missing or malformed.
C12_MalformedSkipped ==
    /\ [][MalformedNext =>
             /\ cfg_warned' = cfg_warned \cup {cfg_i + 1}
             /\ PG_config' = PG_config
             /\ cfg_i' = cfg_i + 1
             /\ cfg_pc' = "configs"]_vars
    /\ [](cfg_pc = "done" => cfg_count = Cardinality(ParsedFragments))
    /\ [](cfg_pc \in {"exited", "threw"} => BaseFatal)

---------------------------------------------------------------------------
(* Load-order runs: getPluginLoadOrder on its own, with either flag, over
   empty, whitespace-only, comment and plugin lines *)

LoadOrderLineUniverse ==
    { <<>>, <<" ">>, <<"#", "a">>, <<"a">>, <<"a", ".", "e">>,
      <<"a", ".", "b", ".", "e">> }

InitLoadOrder ==
    /\ loadorder_txt \in SeqsUpTo(LoadOrderLineUniverse, MaxLoadOrderLines)
    /\ arg_trim_extension \in BOOLEAN
    /\ pt_ini = NoPt /\ data_dir = <<>> /\ bsa_data = [f \in {} |-> <<>>]
    /\ pc = "getPluginLoadOrder"
    /\ out_bsa_order = <<>> /\ load_order = <<>> /\ all_bsa_files = <<>>
    /\ plugin_i = 0 /\ cur_found_bsas = <<>>
    /\ bsa_files = <<>> /\ bsa_i = 0
    /\ fileMap = EmptyMap /\ warned = {}
    /\ CfgIdle
    /\ CmIdle

SpecLoadOrder == InitLoadOrder /\ [][NextLoadOrder]_vars

(* Claims about getPluginLoadOrder *)

\* a line without characters, or of white space only
BlankLine(line) == \A i \in 1..Len(line) : IsSpace(line[i])

CommentLine(line) == line # <<>> /\ line[1] = "#"

\* e is line without its last '.' and what follows it; line itself when
\* it has no '.'
IsStripped(e, line) ==
    IF \A i \in 1..Len(line) : line[i] # "."
    THEN e = line
    ELSE \E i \in 1..Len(line) :
            /\ line[i] = "."
            /\ \A j \in (i + 1)..Len(line) : line[j] # "."
            /\ e = SubSeq(line, 1, i - 1)

\* out is the lines at the positions kept, in file order, stripped on demand
IsLoadOrderOf(out, lines, kept, strip) ==
    LET src == Pick(lines, kept)
    IN  /\ Len(out) = Len(src)
        /\ \A j \in 1..Len(src) :
               IF strip THEN IsStripped(out[j], src[j]) ELSE out[j] = src[j]

\* C13 (as claimed): the load order is the lines that are neither blank
\* nor begin with '#', in file order, duplicates kept, each without its
\* final '.'-suffix when stripping is on.
C13_LoadOrderLines ==
    pc = "returned" =>
        IsLoadOrderOf(load_order, loadorder_txt,
                      {i \in 1..Len(loadorder_txt) :
                          /\ ~BlankLine(loadorder_txt[i])
                          /\ ~CommentLine(loadorder_txt[i])},
                      arg_trim_extension)

\* C13 (amended): the same, for the lines that are neither empty nor begin
\* with '#': a line of white space only is returned like a plugin line.
C13_NonEmptyLines ==
    pc = "returned" =>
        IsLoadOrderOf(load_order, loadorder_txt,
                      {i \in 1..Len(loadorder_txt) :
                          /\ loadorder_txt[i] # <<>>
                          /\ ~CommentLine(loadorder_txt[i])},
                      arg_trim_extension)

\* a comment line, then twice the same line with two dots, stripped
C13_Witness ==
    /\ pc = "returned" /\ arg_trim_extension
    /\ loadorder_txt = << <<"#", "a">>, <<"a", ".", "b", ".", "e">>,
                          <<"a", ".", "b", ".", "e">> >>
    /\ load_order = << <<"a", ".", "b">>, <<"a", ".", "b">> >>

---------------------------------------------------------------------------
(* Claims about missing archives and skipped extensions *)

\* the positions of the priority list whose archive is not on disk
MissingPositions ==
    {i \in 1..Len(bsa_files) : ~FsExists(data_dir, bsa_files[i])}

\* the file map after the archives of list, all on disk, are added in order
RECURSIVE ArchivesAdded(_, _)
ArchivesAdded(fm, list) ==
    IF list = <<>> THEN fm
    ELSE ArchivesAdded(
             addBSAToFileMap(fm, Head(list),
                             ArchiveEntries(data_dir, bsa_data, Head(list))),
             Tail(list))

\* C14: a finished build has warned about every archive of the priority
\* list that is not on disk, holds no entry of such an archive, and its
\* file map is the one the list without the missing archives gives:
\* the archives after a missing one and the loose files are processed.
C14_MissingArchiveSkipped ==
    pc = "done" =>
        /\ \A i \in MissingPositions :
              /\ <<"missing", bsa_files[i]>> \in warned
              /\ \A k \in DOMAIN fileMap : fileMap[k] # bsa_files[i]
        /\ fileMap =
              addLooseFilesToMap(
                  ArchivesAdded(EmptyMap,
                      Pick(bsa_files, (1..Len(bsa_files)) \ MissingPositions)),
                  data_dir)

\* a finished build whose list has a missing archive before one that is on
\* disk and has an entry in the map, next to a loose-file entry
C14_Witness ==
    /\ pc = "done"
    /\ \E i \in MissingPositions : \E j \in (i + 1)..Len(bsa_files) :
          \E k \in DOMAIN fileMap : fileMap[k] = bsa_files[j]
    /\ \E k \in DOMAIN fileMap : fileMap[k] = LOOSE_FILES

\* the extension of a file, letter case folded, is one of the four skipped
ContainerOrPlugin(file) ==
    ToLower(Extension(file)) \in {DotBsa, DotEsp, DotEsl, DotEsm}

\* C16 (as claimed): after the build no loose-file entry has the extension
\* .bsa, .esp, .esl or .esm in any letter case, and every other regular
\* file under the data directory has a loose-file entry.
C16_NoContainerLooseEntries ==
    pc = "done" =>
        /\ \A k \in DOMAIN fileMap :
              fileMap[k] = LOOSE_FILES => ~ContainerOrPlugin(k[Len(k)])
        /\ \A i \in 1..Len(data_dir) :
              ~ContainerOrPlugin(data_dir[i]) =>
                  /\ PathElems(data_dir[i]) \in DOMAIN fileMap
                  /\ fileMap[PathElems(data_dir[i])] = LOOSE_FILES

---------------------------------------------------------------------------
(* Complex-material runs: up to MaxCandidates candidates, each with any of
   the three decode outcomes *)

CandidateUniverse == {"a_m.dds", "b_m.dds", "c_m.dds"}

InitComplexMaterial ==
    /\ env_maps \in SeqsUpTo(CandidateUniverse, MaxCandidates)
    /\ dds \in [CandidateUniverse -> {Undecodable, Opaque, UsesAlpha}]
    /\ CmStart
    /\ pt_ini = NoPt /\ loadorder_txt = <<>> /\ data_dir = <<>>
    /\ bsa_data = [f \in {} |-> <<>>]
    /\ arg_trim_extension = TRUE
    /\ BdiStart
    /\ CfgIdle

SpecComplexMaterial == InitComplexMaterial /\ [][NextCm]_vars

(* Claims about findComplexMaterialMaps *)

PositionsOf(outcome) == {i \in 1..Len(env_maps) : dds[env_maps[i]] = outcome}

\* C15: when findComplexMaterialMaps is done, the complex material maps are
\* the candidates that decode and use their alpha channel, in candidate
\* order; the candidates that do not decode are logged and left out, and
\* the candidates after them have been examined.
C15_OnlyDecodedWithAlpha ==
    cm_pc = "done" =>
        /\ cm_i = Len(env_maps)
        /\ complexMaterialMaps = Pick(env_maps, PositionsOf(UsesAlpha))
        /\ cm_warned = {env_maps[i] : i \in PositionsOf(Undecodable)}
        /\ \A i \in PositionsOf(Undecodable) \cup PositionsOf(Opaque) :
              env_maps[i] \notin Range(complexMaterialMaps)

\* a candidate that does not decode stands before an opaque one and before
\* one that uses its alpha channel, which was added
C15_Witness ==
    /\ cm_pc = "done"
    /\ \E i \in PositionsOf(Undecodable) :
          /\ \E j \in PositionsOf(UsesAlpha) : i < j
          /\ \E j \in PositionsOf(Opaque) : i < j
    /\ Len(complexMaterialMaps) = 1

=============================================================================
